---- MODULE Spec2Model ----
(***************************************************************************)
(* Model of src/app.py (TDFC Dico): a spreadsheet-derived lookup index     *)
(* kept in SQLite, rebuilt lazily when the signature of the source file    *)
(* changes, and queried by a compound normalized key.                      *)
(*                                                                         *)
(* Texts are sequences of characters; a character is a one-token string.   *)
(* The tokens "nbsp", "comb_acute", "e_acute" and "E_acute" stand for      *)
(* U+00A0, U+0301, U+00E9 and U+00C9.  The empty text "" is << >>.         *)
(***************************************************************************)
EXTENDS Integers, Sequences, FiniteSets, TLC

(***************************************************************************)
(* Bounds of the model.                                                    *)
(***************************************************************************)
\* Requests accepted in one behaviour.
MaxRequests == 2
\* Rows staged before an intermediate commit.  The program uses 3000
\* (src/app.py:135); the model scales it down so that a sheet of a few rows
\* is committed in more than one batch.
BATCH_SIZE == 2

(***************************************************************************)
(* Characters and Python's str methods used by norm.                       *)
(***************************************************************************)
\* Python's None (a cell without value, a missing query result).
None == <<"<None>">>

\* Characters str.strip() removes: U+0020 and U+00A0 are both whitespace.
WHITESPACE == {" ", "nbsp"}

\* Unicode category Mn (non-spacing marks).
MN == {"comb_acute"}

UPPER == <<"A", "B", "C", "D", "E", "F", "I", "L", "M", "N", "O", "P", "R", "S",
           "T", "V", "X", "Z", "E_acute">>
LOWER == <<"a", "b", "c", "d", "e", "f", "i", "l", "m", "n", "o", "p", "r", "s",
           "t", "v", "x", "z", "e_acute">>

\* str.lower() on one character.
lower_ch(ch) ==
    IF \E i \in 1..Len(UPPER) : UPPER[i] = ch
    THEN LOWER[CHOOSE i \in 1..Len(UPPER) : UPPER[i] = ch]
    ELSE ch

\* unicodedata.normalize("NFD", ch) on one character.
nfd_ch(ch) ==
    CASE ch = "e_acute" -> <<"e", "comb_acute">>
      [] ch = "E_acute" -> <<"E", "comb_acute">>
      [] OTHER -> <<ch>>

RECURSIVE lstrip(_)
lstrip(s) ==
    IF s # <<>> /\ Head(s) \in WHITESPACE THEN lstrip(Tail(s)) ELSE s

RECURSIVE rstrip(_)
rstrip(s) ==
    IF s # <<>> /\ s[Len(s)] \in WHITESPACE
    THEN rstrip(SubSeq(s, 1, Len(s) - 1))
    ELSE s

\* str.strip()
strip(s) == rstrip(lstrip(s))

\* str.lower()
lower(s) == [i \in 1..Len(s) |-> lower_ch(s[i])]

RECURSIVE nfd(_)
nfd(s) == IF s = <<>> THEN <<>> ELSE nfd_ch(Head(s)) \o nfd(Tail(s))

IsNotMn(ch) == ch \notin MN

\* "".join(ch for ch in normalize("NFD", s) if category(ch) != "Mn")
strip_marks(s) == SelectSeq(nfd(s), IsNotMn)

\* s.replace(" ", " ")
replace_nbsp(s) == [i \in 1..Len(s) |-> IF s[i] = "nbsp" THEN " " ELSE s[i]]

\* "  " in s
has_double_space(s) ==
    \E i \in 1..(Len(s) - 1) : s[i] = " " /\ s[i + 1] = " "

\* s.replace("  ", " "): non-overlapping occurrences, left to right.
RECURSIVE replace_double(_)
replace_double(s) ==
    IF Len(s) < 2 THEN s
    ELSE IF s[1] = " " /\ s[2] = " "
         THEN <<" ">> \o replace_double(SubSeq(s, 3, Len(s)))
         ELSE <<s[1]>> \o replace_double(Tail(s))

\* while "  " in s: s = s.replace("  ", " ")
RECURSIVE collapse(_)
collapse(s) == IF has_double_space(s) THEN collapse(replace_double(s)) ELSE s

\* norm(s), src/app.py:43-51.  Cell values are None or the text str() gives.
norm(s) ==
    IF s = None THEN <<>>
    ELSE collapse(replace_nbsp(strip_marks(lower(strip(s)))))

(***************************************************************************)
(* find_header, src/app.py:88-111.                                         *)
(* A worksheet is [max_row, rows]: rows is the grid (a sequence of rows, a *)
(* row a sequence of cell values), max_row is ws.max_row, 0 standing for   *)
(* None (a read-only sheet without a dimension record).                    *)
(***************************************************************************)
max_scan_rows == 40

RuntimeError == <<"RuntimeError">>

Min(a, b) == IF a <= b THEN a ELSE b

\* ws[r]: the cells of row r (no cell for a row the sheet does not hold).
ws_row(ws, r) == IF r <= Len(ws.rows) THEN ws.rows[r] ELSE <<>>

\* The literals of src/app.py:104-106.
ALIASES_IMPRIME == << <<"i","m","p","r","i","m","e_acute">>,
                      <<"i","m","p","r","i","m","e">> >>
ALIASES_CODEEDI == << <<"c","o","d","e"," ","e","d","i">>,
                      <<"c","o","d","e","_","e","d","i">>,
                      <<"c","o","d","e","e","d","i">> >>
ALIASES_LIBELLE == << <<"l","i","b","e","l","l","e_acute">>,
                      <<"l","i","b","e","l","l","e">> >>

\* The loop of src/app.py:98-102: hm maps a normalized cell text to the
\* first column (from 1) holding it; empty texts are not mapped.
RECURSIVE header_map(_, _, _)
header_map(cells, idx, hm) ==
    IF idx > Len(cells) THEN hm
    ELSE LET t == norm(cells[idx])
         IN  header_map(cells, idx + 1,
                        IF t # <<>> /\ t \notin DOMAIN hm
                        THEN hm @@ (t :> idx)
                        ELSE hm)

\* pick taking the leftmost column any of the keys is mapped to.
pick_leftmost(hm, keys) ==
    LET cols == {hm[norm(keys[k])] :
                    k \in {j \in 1..Len(keys) : norm(keys[j]) \in DOMAIN hm}}
    IN  IF cols = {} THEN 0
        ELSE CHOOSE c \in cols : \A d \in cols : c <= d

\* pick(hm, *keys), src/app.py:89-94.  0 stands for None (both are falsy
\* in the test of line 108; a column index is never 0).
RECURSIVE pick(_, _)
pick(hm, keys) ==
    IF keys = <<>> THEN 0
    ELSE LET nk == norm(Head(keys))
         IN  IF nk \in DOMAIN hm THEN hm[nk] ELSE pick(hm, Tail(keys))

\* The loop of src/app.py:97-111 from row r on: <<r, ci, cc, cl>> of the
\* first row resolving the three fields, or RuntimeError.
RECURSIVE find_header_from(_, _, _)
find_header_from(ws, r, max_r) ==
    IF r > max_r THEN RuntimeError
    ELSE LET hm == header_map(ws_row(ws, r), 1, <<>>)
             ci == pick(hm, ALIASES_IMPRIME)
             cc == pick(hm, ALIASES_CODEEDI)
             cl == pick(hm, ALIASES_LIBELLE)
         IN  IF ci # 0 /\ cc # 0 /\ cl # 0
             THEN <<r, ci, cc, cl>>
             ELSE find_header_from(ws, r + 1, max_r)

\* find_header without the window of line 96.
find_header_unbounded(ws) == find_header_from(ws, 1, ws.max_row)

find_header(ws) == find_header_from(ws, 1, Min(max_scan_rows, ws.max_row))

(***************************************************************************)
(* The row loop of rebuild_cache, src/app.py:137-156.                      *)
(***************************************************************************)
\* stage_row without the test of lines 149-150.
stage_row_any_label(row, col_imprime, col_codeedi, col_libelle) ==
    IF col_imprime - 1 >= Len(row) \/ col_codeedi - 1 >= Len(row) THEN <<>>
    ELSE LET imp == norm(row[col_imprime])
             edi == norm(row[col_codeedi])
             lib == IF col_libelle - 1 < Len(row) /\ row[col_libelle] # None
                    THEN strip(row[col_libelle])
                    ELSE <<>>
         IN  IF imp = <<>> \/ edi = <<>> THEN <<>>
             ELSE << [imprime |-> imp, codeedi |-> edi, libelle |-> lib] >>

\* Lines 138-152 for one row: << >> when the row is skipped, else the one
\* tuple appended to batch.
stage_row(row, col_imprime, col_codeedi, col_libelle) ==
    IF col_imprime - 1 >= Len(row) \/ col_codeedi - 1 >= Len(row) THEN <<>>
    ELSE LET imp == norm(row[col_imprime])
             edi == norm(row[col_codeedi])
             lib == IF col_libelle - 1 < Len(row) /\ row[col_libelle] # None
                    THEN strip(row[col_libelle])
                    ELSE <<>>
         IN  IF imp = <<>> \/ edi = <<>> THEN <<>>
             ELSE IF lib = <<>> THEN <<>>
             ELSE << [imprime |-> imp, codeedi |-> edi, libelle |-> lib] >>

\* fill_batch leaving the loop at the first row it does not stage.
RECURSIVE fill_batch_break(_, _, _, _)
fill_batch_break(rows, i, hdr, batch) ==
    IF i > Len(rows) THEN [batch |-> batch, next |-> i]
    ELSE LET st == stage_row(rows[i], hdr[2], hdr[3], hdr[4])
             b == batch \o st
         IN  IF st = <<>> THEN [batch |-> batch, next |-> Len(rows) + 1]
             ELSE IF Len(b) >= BATCH_SIZE
                  THEN [batch |-> b, next |-> i + 1]
                  ELSE fill_batch_break(rows, i + 1, hdr, b)

\* fill_batch staging each row in front of the batch.
RECURSIVE fill_batch_prepend(_, _, _, _)
fill_batch_prepend(rows, i, hdr, batch) ==
    IF i > Len(rows) THEN [batch |-> batch, next |-> i]
    ELSE LET b == stage_row(rows[i], hdr[2], hdr[3], hdr[4]) \o batch
         IN  IF Len(b) >= BATCH_SIZE
             THEN [batch |-> b, next |-> i + 1]
             ELSE fill_batch_prepend(rows, i + 1, hdr, b)

\* The loop from sheet row i on, with `batch` staged so far, up to the next
\* commit: it stops after the row that fills the batch (line 153) or at the
\* end of the sheet (line 158).  next is the row the loop resumes at.
RECURSIVE fill_batch(_, _, _, _)
fill_batch(rows, i, hdr, batch) ==
    IF i > Len(rows) THEN [batch |-> batch, next |-> i]
    ELSE LET b == batch \o stage_row(rows[i], hdr[2], hdr[3], hdr[4])
         IN  IF Len(b) >= BATCH_SIZE
             THEN [batch |-> b, next |-> i + 1]
             ELSE fill_batch(rows, i + 1, hdr, b)

(***************************************************************************)
(* Cell and query texts of the modelled workbooks.                         *)
(***************************************************************************)
\* 'Notes'
T_NOTES == <<"N", "o", "t", "e", "s">>
\* 'Imprimé'
T_IMPRIME == <<"I", "m", "p", "r", "i", "m", "e_acute">>
\* 'Code EDI'
T_CODE_EDI == <<"C", "o", "d", "e", " ", "E", "D", "I">>
\* 'Libellé'
T_LIBELLE == <<"L", "i", "b", "e", "l", "l", "e_acute">>
\* 'IMPRIME'
T_IMPRIME_UP == <<"I", "M", "P", "R", "I", "M", "E">>
\* 'Code_EDI'
T_CODE_EDI_US == <<"C", "o", "d", "e", "_", "E", "D", "I">>
\* 'libelle'
T_LIBELLE_PLAIN == <<"l", "i", "b", "e", "l", "l", "e">>
\* 'CodeEDI'
T_CODEEDI == <<"C", "o", "d", "e", "E", "D", "I">>
\* 'x'
T_X == <<"x">>
\* '12'
T_12 == <<"1", "2">>
\* ' 12<nbsp>'
T_12_SP == <<" ", "1", "2", "nbsp">>
\* '0A'
T_0A == <<"0", "A">>
\* '0a'
T_0A_LOW == <<"0", "a">>
\* '9Z'
T_9Z == <<"9", "Z">>
\* ' '
T_SPACE == <<" ">>
\* 'L a'
T_LABEL_ONE == <<"L", " ", "a">>
\* 'l  a'
T_LABEL_ONE_LOW == <<"l", " ", " ", "a">>
\* ' M '
T_LABEL_TWO == <<" ", "M", " ">>
\* 'Or'
T_ORPHAN == <<"O", "r">>
\* 'Old'
T_OLD_LABEL == <<"O", "l", "d">>
\* 'Ot'
T_OTHER_LABEL == <<"O", "t">>

(***************************************************************************)
(* Uploadable contents.  A content is what the bytes of an .xlsx hold: its *)
(* length (st_size once installed) and its sheets.                         *)
(***************************************************************************)
SHEET_NAME_DEFAULT == "2026"
SheetNames == {"2026", "2025"}

\* "2026" of W1: a title row of four cells, a blank row, the header at row
\* 3, then data:
\* row 4 valid, row 5 without imprimé, row 6 the key of row 4 in another
\* spelling with a label equal up to case and spacing, row 7 too short for
\* the label column, row 8 with a blank label, row 9 valid, row 10 too
\* short for the code EDI column.
WS_W1_2026 ==
    [max_row |-> 10,
     rows |-> << <<T_NOTES, T_12, T_0A, T_ORPHAN>>,
                 <<>>,
                 <<T_NOTES, T_IMPRIME, T_CODE_EDI, T_LIBELLE>>,
                 <<T_X, T_12, T_0A, T_LABEL_ONE>>,
                 <<T_X, None, T_0A, T_ORPHAN>>,
                 <<T_X, T_12_SP, T_0A_LOW, T_LABEL_ONE_LOW>>,
                 <<T_X, T_12, T_0A>>,
                 <<T_X, T_12, T_0A, T_SPACE>>,
                 <<T_X, T_12, T_0A, T_LABEL_TWO>>,
                 <<T_X, T_X>> >>]

\* "2025" of W1: header at row 1, other aliases, other column order.
WS_W1_2025 ==
    [max_row |-> 2,
     rows |-> << <<T_CODE_EDI_US, T_LIBELLE_PLAIN, T_IMPRIME_UP>>,
                 <<T_0A, T_OLD_LABEL, T_12>> >>]

\* "2026" of W2: header at row 1, one data row.
WS_W2_2026 ==
    [max_row |-> 2,
     rows |-> << <<T_IMPRIME, T_CODE_EDI, T_LIBELLE>>,
                 <<T_12, T_0A, T_OTHER_LABEL>> >>]

\* "2026" of W3: no header row.
WS_W3_2026 ==
    [max_row |-> 2,
     rows |-> << <<T_NOTES, T_IMPRIME>>,
                 <<T_X, T_12>> >>]

\* W1 and W2 have the same length; W3 holds no usable sheet; TINY is below
\* the 1000 bytes upload_excel asks for.
Contents == {"W1", "W2", "W3", "TINY"}

content_len(c) ==
    CASE c = "W1" -> 2000
      [] c = "W2" -> 2000
      [] c = "W3" -> 3000
      [] c = "TINY" -> 999

\* wb.sheetnames
sheetnames(c) ==
    CASE c = "W1" -> {"2026", "2025"}
      [] c = "W2" -> {"2026"}
      [] c = "W3" -> {"2026"}
      [] c = "TINY" -> {}

\* wb[sheet_name]
worksheet(c, sheet_name) ==
    CASE c = "W1" /\ sheet_name = "2026" -> WS_W1_2026
      [] c = "W1" /\ sheet_name = "2025" -> WS_W1_2025
      [] c = "W2" /\ sheet_name = "2026" -> WS_W2_2026
      [] c = "W3" /\ sheet_name = "2026" -> WS_W3_2026

(***************************************************************************)
(* State.                                                                  *)
(* lookup is a plain def: FastAPI runs it on threadpool workers, so        *)
(* lookups overlap.  upload_excel is an async def whose rebuild_cache call *)
(* blocks the event loop: one upload at a time, overlapping the lookups.   *)
(***************************************************************************)
Threads == {"t1", "t2"}
Loop == "loop"
Procs == Threads \cup {Loop}

VARIABLES
    data_file,     \* DATA_FILE: [exists, content, mtime]
    meta,          \* table meta: the value stored under 'file_sig', "" if none
    entries,       \* table entries, in rowid order
    pc,            \* where each worker stands in its handler
    sheet,         \* the handler's sheet parameter
    cached_sig,    \* ensure_cache_uptodate's cached_sig
    file_sig,      \* rebuild_cache's file_sig
    wb,            \* rebuild_cache's wb: the content load_workbook opened
    next_row,      \* the sheet row the loop of line 137 resumes at
    resp,          \* the last response of each worker
    \* History variables, read by the properties only.
    nreq,          \* requests accepted so far
    dirty,         \* the worker's rebuild_cache call has changed the store
    fresh,         \* the worker's rebuild emptied the store and no other
                   \* worker has committed or installed a file since
    meta_failed,   \* the rebuild that stored meta's signature has raised
    known_failed,  \* meta_failed held when the lookup arrived and still
                   \* holds of its current_sig, the source being unchanged
    asked,         \* what the lookup answered last was asked, and how it ran
    unchanged,     \* the lookup has computed current_sig and DATA_FILE
                   \* has not been replaced since
    \* find_header taken alone (SpecHeader).
    fh_ws,         \* the worksheet find_header is called with
    fh_result,     \* what the call returned or raised
    \* norm taken alone (SpecNorm).
    nm_x,          \* the text norm is called with
    nm_once,       \* norm(x)
    nm_twice       \* norm(norm(x))

code_vars == <<data_file, meta, entries, pc, sheet, cached_sig,
               file_sig, wb, next_row, resp>>
hist_vars == <<nreq, dirty, fresh, meta_failed, known_failed, asked,
               unchanged>>
fh_vars == <<fh_ws, fh_result>>
nm_vars == <<nm_x, nm_once, nm_twice>>
aside_vars == <<fh_vars, nm_vars>>
vars == <<code_vars, hist_vars, fh_vars, nm_vars>>

DATA_FILE == "current.xlsx"
NoFile == [exists |-> FALSE, content |-> "-", mtime |-> 0]
NoSig == <<>>
NoResp == [kind |-> "none"]
NoStore == [meta |-> NoSig, entries |-> <<>>]

\* get_file_sig, src/app.py:81-85, as a function of the file it stats.
sig_of(f, sheet_name) ==
    IF ~f.exists THEN NoSig
    ELSE <<DATA_FILE, f.mtime, content_len(f.content), sheet_name>>

get_file_sig(sheet_name) == sig_of(data_file, sheet_name)

\* TDFC_ADMIN_KEY of the process environment (src/app.py:27): the modelled
\* deployment sets it.
K_SECRET == <<"k">>
K_WRONG == <<"w">>
ADMIN_KEY == K_SECRET

\* require_admin, src/app.py:54-57: TRUE when it raises 401.
require_admin(key) == ADMIN_KEY # <<>> /\ key # ADMIN_KEY

\* s.endswith(suffix)
endswith(s, suffix) ==
    /\ Len(s) >= Len(suffix)
    /\ SubSeq(s, Len(s) - Len(suffix) + 1, Len(s)) = suffix

DOT_XLSX == <<".", "x", "l", "s", "x">>

\* The whole of a sheet as one rebuild stages it, in row order.
RECURSIVE stage_rows(_, _, _)
stage_rows(rows, i, hdr) ==
    IF i > Len(rows) THEN <<>>
    ELSE stage_row(rows[i], hdr[2], hdr[3], hdr[4]) \o stage_rows(rows, i + 1, hdr)

\* Lines 127-132 for content c and sheet_name: what find_header returns,
\* or RuntimeError when the sheet is missing or find_header raises.
load_header(c, sheet_name) ==
    IF sheet_name \notin sheetnames(c) THEN RuntimeError
    ELSE find_header(worksheet(c, sheet_name))

\* load_header and fill_batch are pure: they are tabulated once over the
\* modelled contents, sheet names and rows.
HEADERS == [c \in Contents, sn \in SheetNames |-> load_header(c, sn)]

BATCHES ==
    [c \in Contents, sn \in SheetNames |->
        IF HEADERS[c, sn] = RuntimeError THEN <<>>
        ELSE [i \in 1..(Len(worksheet(c, sn).rows) + 1) |->
                 fill_batch(worksheet(c, sn).rows, i, HEADERS[c, sn], <<>>)]]

(***************************************************************************)
(* The queries of lookup, src/app.py:237-262.                              *)
(***************************************************************************)
IsMatch(e, imp, edi) == e.imprime = imp /\ e.codeedi = edi

\* SELECT libelle FROM entries WHERE imprime=? AND codeedi=?, in rowid order.
RECURSIVE select_libelle(_, _, _)
select_libelle(tbl, imp, edi) ==
    IF tbl = <<>> THEN <<>>
    ELSE (IF IsMatch(Head(tbl), imp, edi) THEN <<Head(tbl).libelle>> ELSE <<>>)
         \o select_libelle(Tail(tbl), imp, edi)

\* The loop of lines 254-260 with the raw label as the key of `seen`.
RECURSIVE dedup_raw(_, _, _)
dedup_raw(rows, seen, out) ==
    IF rows = <<>> THEN out
    ELSE LET x == Head(rows)
         IN  IF x \notin seen
             THEN dedup_raw(Tail(rows), seen \cup {x}, Append(out, x))
             ELSE dedup_raw(Tail(rows), seen, out)

\* The loop of lines 254-260.
RECURSIVE dedup(_, _, _)
dedup(rows, seen, out) ==
    IF rows = <<>> THEN out
    ELSE LET x == Head(rows)
             k == norm(x)
         IN  IF k \notin seen
             THEN dedup(Tail(rows), seen \cup {k}, Append(out, x))
             ELSE dedup(Tail(rows), seen, out)

\* Lines 243-249 answering with the last matching row.
lookup_single_last(tbl, imprime, codeedi) ==
    LET rows == select_libelle(tbl, norm(imprime), norm(codeedi))
    IN  [kind |-> "single", found |-> rows # <<>>,
         libelle |-> IF rows # <<>> THEN rows[Len(rows)] ELSE <<>>]

\* The response of lines 243-249.
lookup_single(tbl, imprime, codeedi) ==
    LET rows == select_libelle(tbl, norm(imprime), norm(codeedi))
    IN  [kind |-> "single", found |-> rows # <<>>,
         libelle |-> IF rows # <<>> THEN Head(rows) ELSE <<>>]

\* The response of lines 251-262.
lookup_all(tbl, imprime, codeedi) ==
    LET out == dedup(select_libelle(tbl, norm(imprime), norm(codeedi)), {}, <<>>)
    IN  [kind |-> "all", found |-> Len(out) > 0, libelles |-> out]

(***************************************************************************)
(* Inputs.                                                                 *)
(***************************************************************************)
F_XLSX == <<"a", ".", "X", "L", "S", "X">>
F_CSV == <<"a", ".", "c", "s", "v">>
Filenames == {F_XLSX, F_CSV}

Keys == {K_SECRET, K_WRONG}

\* Whole seconds (int(st_mtime)) at which an upload is written.
Seconds == {0, 1}

\* (imprime, codeedi, all) of a lookup; the two texts have min_length=1.
Queries == { <<T_12, T_0A, FALSE>>, <<T_12, T_0A, TRUE>>,
             <<T_SPACE, T_0A, FALSE>>, <<T_12, T_9Z, TRUE>> }

NoAsk == [imprime |-> <<>>, codeedi |-> <<>>, sheet |-> "-", wb |-> "-",
          fresh |-> FALSE]

(***************************************************************************)
(* Initial states: the process starts over STORAGE_DIR, which is empty, or *)
(* holds what an earlier run left: the workbook W1 installed at second 0   *)
(* with the index built from its default sheet, or that index alone (the   *)
(* index and the workbook are separate files of the directory).            *)
(***************************************************************************)
W1_AT_0 == [exists |-> TRUE, content |-> "W1", mtime |-> 0]

BuiltStore(f, sheet_name) ==
    LET ws == worksheet(f.content, sheet_name)
    IN  [meta |-> sig_of(f, sheet_name),
         entries |-> stage_rows(ws.rows, find_header(ws)[1] + 1, find_header(ws))]

InitialStorage ==
    { <<NoFile, NoStore>>,
      <<W1_AT_0, BuiltStore(W1_AT_0, SHEET_NAME_DEFAULT)>>,
      <<NoFile, BuiltStore(W1_AT_0, SHEET_NAME_DEFAULT)>> }

\* No request is being handled.
Quiet ==
    /\ pc = [p \in Procs |-> "idle"]
    /\ sheet = [p \in Procs |-> SHEET_NAME_DEFAULT]
    /\ cached_sig = [p \in Threads |-> NoSig]
    /\ file_sig = [p \in Procs |-> NoSig]
    /\ wb = [p \in Procs |-> "-"]
    /\ next_row = [p \in Procs |-> 0]
    /\ resp = [p \in Procs |-> NoResp]
    /\ nreq = 0
    /\ dirty = [p \in Procs |-> FALSE]
    /\ fresh = [p \in Procs |-> FALSE]
    /\ meta_failed = FALSE
    /\ known_failed = [p \in Threads |-> FALSE]
    /\ asked = [p \in Threads |-> NoAsk]
    /\ unchanged = [p \in Threads |-> FALSE]

NotCalled == <<"not called">>
NoSheet == [max_row |-> 0, rows |-> <<>>]

\* find_header and norm are not being looked at on their own.
NoAside ==
    /\ fh_ws = NoSheet
    /\ fh_result = NotCalled
    /\ nm_x = <<>>
    /\ nm_once = NotCalled
    /\ nm_twice = NotCalled

Init ==
    /\ \E st \in InitialStorage :
          /\ data_file = st[1]
          /\ meta = st[2].meta
          /\ entries = st[2].entries
    /\ Quiet
    /\ NoAside

(***************************************************************************)
(* The end of a handler: its locals are gone, its response is in resp.     *)
(***************************************************************************)
Error(status) == [kind |-> "error", status |-> status]

Forget(p) ==
    /\ pc' = [pc EXCEPT ![p] = "done"]
    /\ sheet' = [sheet EXCEPT ![p] = SHEET_NAME_DEFAULT]
    /\ file_sig' = [file_sig EXCEPT ![p] = NoSig]
    /\ wb' = [wb EXCEPT ![p] = "-"]
    /\ next_row' = [next_row EXCEPT ![p] = 0]
    /\ dirty' = [dirty EXCEPT ![p] = FALSE]
    /\ known_failed' = [q \in Threads |-> q # p /\ known_failed[q]]
    /\ unchanged' = [q \in Threads |-> q # p /\ unchanged[q]]

\* Worker p commits to the store: no other worker's index is fresh any more.
Disturbs(p) == [q \in Procs |-> q = p /\ fresh[q]]

(***************************************************************************)
(* GET /lookup, src/app.py:225-262, on a threadpool worker.                *)
(***************************************************************************)
\* LookupStart without the test of lines 164-165.
LookupStart_untested(p, sheet_name) ==
    /\ pc[p] = "idle"
    /\ nreq < MaxRequests
    /\ nreq' = nreq + 1
    /\ resp' = [resp EXCEPT ![p] = NoResp]
    /\ sheet' = [sheet EXCEPT ![p] = sheet_name]
    /\ cached_sig' = [cached_sig EXCEPT ![p] = meta]
    /\ known_failed' = [known_failed EXCEPT ![p] = meta_failed]
    /\ pc' = [pc EXCEPT ![p] = "check_sig"]
    /\ UNCHANGED <<data_file, meta, entries, file_sig, wb, next_row, dirty,
                   fresh, meta_failed, asked, unchanged>>
    /\ UNCHANGED aside_vars

\* The request arrives; ensure_cache_uptodate tests DATA_FILE.exists()
\* (lines 164-165), lookup turning its error into a 400 (lines 234-235), and
\* reads the stored signature (lines 167-172: SELECT value FROM meta WHERE
\* key='file_sig').  The file, once installed, is never removed, so the
\* test and the read are one step of a request that arrives at the read.
LookupStart(p, sheet_name) ==
    /\ pc[p] = "idle"
    /\ nreq < MaxRequests
    /\ nreq' = nreq + 1
    /\ IF ~data_file.exists
       THEN /\ resp' = [resp EXCEPT ![p] = Error(400)]
            /\ pc' = [pc EXCEPT ![p] = "done"]
            /\ UNCHANGED <<sheet, cached_sig, known_failed>>
       ELSE /\ resp' = [resp EXCEPT ![p] = NoResp]
            /\ sheet' = [sheet EXCEPT ![p] = sheet_name]
            /\ cached_sig' = [cached_sig EXCEPT ![p] = meta]
            /\ known_failed' = [known_failed EXCEPT ![p] = meta_failed]
            /\ pc' = [pc EXCEPT ![p] = "check_sig"]
    /\ UNCHANGED <<data_file, meta, entries, file_sig, wb, next_row, dirty,
                   fresh, meta_failed, asked, unchanged>>
    /\ UNCHANGED aside_vars

\* CheckSig never calling rebuild_cache.
CheckSig_never(p) ==
    /\ pc[p] = "check_sig"
    /\ pc' = [pc EXCEPT ![p] = "query"]
    /\ known_failed' = [known_failed EXCEPT
                          ![p] = /\ known_failed[p]
                                 /\ meta_failed
                                 /\ get_file_sig(sheet[p]) = meta]
    /\ cached_sig' = [cached_sig EXCEPT ![p] = NoSig]
    /\ unchanged' = [unchanged EXCEPT ![p] = TRUE]
    /\ UNCHANGED <<data_file, meta, entries, sheet, file_sig, wb, next_row,
                   resp, nreq, dirty, fresh, meta_failed, asked>>
    /\ UNCHANGED aside_vars

\* CheckSig calling rebuild_cache whatever the comparison of line 175 says.
CheckSig_always(p) ==
    /\ pc[p] = "check_sig"
    /\ pc' = [pc EXCEPT ![p] = "rebuild"]
    /\ known_failed' = [known_failed EXCEPT
                          ![p] = /\ known_failed[p]
                                 /\ meta_failed
                                 /\ get_file_sig(sheet[p]) = meta]
    /\ cached_sig' = [cached_sig EXCEPT ![p] = NoSig]
    /\ unchanged' = [unchanged EXCEPT ![p] = TRUE]
    /\ UNCHANGED <<data_file, meta, entries, sheet, file_sig, wb, next_row,
                   resp, nreq, dirty, fresh, meta_failed, asked>>
    /\ UNCHANGED aside_vars

\* Lines 173-176: current_sig = get_file_sig(sheet_name); rebuild_cache is
\* called when it differs from cached_sig, which is not read again.
CheckSig(p) ==
    /\ pc[p] = "check_sig"
    /\ LET current_sig == get_file_sig(sheet[p])
       IN  /\ pc' = [pc EXCEPT ![p] = IF cached_sig[p] # current_sig
                                      THEN "rebuild" ELSE "query"]
           /\ known_failed' = [known_failed EXCEPT
                                 ![p] = /\ known_failed[p]
                                        /\ meta_failed
                                        /\ current_sig = meta]
    /\ cached_sig' = [cached_sig EXCEPT ![p] = NoSig]
    /\ unchanged' = [unchanged EXCEPT ![p] = TRUE]
    /\ UNCHANGED <<data_file, meta, entries, sheet, file_sig, wb, next_row,
                   resp, nreq, dirty, fresh, meta_failed, asked>>
    /\ UNCHANGED aside_vars

\* Lines 237-262: the SELECT and the response.
Query(p, q) ==
    /\ pc[p] = "query"
    /\ resp' = [resp EXCEPT ![p] = IF q[3] THEN lookup_all(entries, q[1], q[2])
                                   ELSE lookup_single(entries, q[1], q[2])]
    /\ asked' = [asked EXCEPT ![p] = [imprime |-> q[1], codeedi |-> q[2],
                                      sheet |-> sheet[p], wb |-> wb[p],
                                      fresh |-> fresh[p]]]
    /\ fresh' = [fresh EXCEPT ![p] = FALSE]
    /\ Forget(p)
    /\ UNCHANGED <<data_file, meta, entries, cached_sig, nreq, meta_failed>>
    /\ UNCHANGED aside_vars

(***************************************************************************)
(* rebuild_cache, src/app.py:114-160, called by ensure_cache_uptodate      *)
(* (line 176) or by upload_excel (line 218).  One action per access to the *)
(* file system or per committed transaction; a transaction is atomic for   *)
(* the other connections, which SQLite lets write one at a time.           *)
(***************************************************************************)
\* rebuild_cache raised: both callers answer 400 (lines 219-220, 234-235).
Raise(p) ==
    /\ resp' = [resp EXCEPT ![p] = Error(400)]
    /\ fresh' = [fresh EXCEPT ![p] = FALSE]
    /\ Forget(p)

\* Lines 115-120, called at line 176: the existence test and
\* file_sig = get_file_sig(sheet_name).
RebuildSig(p) ==
    /\ pc[p] = "rebuild"
    /\ IF ~data_file.exists
       THEN Raise(p)
       ELSE /\ file_sig' = [file_sig EXCEPT ![p] = get_file_sig(sheet[p])]
            /\ pc' = [pc EXCEPT ![p] = "rb_clear"]
            /\ UNCHANGED <<sheet, wb, next_row, resp, dirty, fresh,
                           known_failed, unchanged>>
    /\ UNCHANGED <<data_file, meta, entries, cached_sig, nreq, meta_failed,
                   asked>>
    /\ UNCHANGED aside_vars

\* RebuildClear leaving the store alone when it holds file_sig already.
RebuildClear_lazy(p) ==
    /\ pc[p] = "rb_clear"
    /\ entries' = IF meta = file_sig[p] THEN entries ELSE <<>>
    /\ meta' = file_sig[p]
    /\ pc' = [pc EXCEPT ![p] = "rb_load"]
    /\ dirty' = [dirty EXCEPT ![p] = meta # file_sig[p]]
    /\ fresh' = [q \in Procs |-> q = p]
    /\ meta_failed' = FALSE
    /\ UNCHANGED <<data_file, sheet, cached_sig, file_sig, wb, next_row, resp,
                   nreq, known_failed, asked, unchanged>>
    /\ UNCHANGED aside_vars

\* Lines 122-125: both tables emptied, the new signature stored, commit.
RebuildClear(p) ==
    /\ pc[p] = "rb_clear"
    /\ entries' = <<>>
    /\ meta' = file_sig[p]
    /\ pc' = [pc EXCEPT ![p] = "rb_load"]
    /\ dirty' = [dirty EXCEPT ![p] = entries # <<>> \/ meta # file_sig[p]]
    /\ fresh' = [q \in Procs |-> q = p]
    /\ meta_failed' = FALSE
    /\ UNCHANGED <<data_file, sheet, cached_sig, file_sig, wb, next_row, resp,
                   nreq, known_failed, asked, unchanged>>
    /\ UNCHANGED aside_vars

\* Lines 127-132: load_workbook(DATA_FILE), the sheet test and find_header.
RebuildLoad(p) ==
    /\ pc[p] = "rb_load"
    /\ LET c == data_file.content
       IN  IF HEADERS[c, sheet[p]] = RuntimeError
           THEN /\ Raise(p)
                /\ meta_failed' = (meta_failed \/ meta = file_sig[p])
           ELSE /\ wb' = [wb EXCEPT ![p] = c]
                /\ next_row' = [next_row EXCEPT
                                  ![p] = HEADERS[c, sheet[p]][1] + 1]
                /\ pc' = [pc EXCEPT ![p] = "rb_rows"]
                /\ UNCHANGED <<sheet, file_sig, resp, dirty, fresh, meta_failed,
                               known_failed, unchanged>>
    /\ UNCHANGED <<data_file, meta, entries, cached_sig, nreq, asked>>
    /\ UNCHANGED aside_vars

\* Lines 134-160: the loop up to its next commit (lines 154-155, or 159-160
\* at the end of the sheet); rebuild_cache returns once the sheet is
\* exhausted: lookup goes on to its query, upload_excel answers (line 222).
RebuildRows(p) ==
    /\ pc[p] = "rb_rows"
    /\ LET ws == worksheet(wb[p], sheet[p])
           fb == BATCHES[wb[p], sheet[p]][next_row[p]]
       IN  /\ entries' = entries \o fb.batch
           /\ fresh' = IF fb.batch # <<>> THEN Disturbs(p) ELSE fresh
           /\ IF fb.next <= Len(ws.rows) \/ p \in Threads
              THEN /\ next_row' = [next_row EXCEPT ![p] = fb.next]
                   /\ dirty' = [dirty EXCEPT ![p] = dirty[p] \/ fb.batch # <<>>]
                   /\ pc' = [pc EXCEPT ![p] = IF fb.next <= Len(ws.rows)
                                              THEN "rb_rows" ELSE "query"]
                   /\ UNCHANGED <<sheet, file_sig, wb, resp, known_failed,
                                  unchanged>>
              ELSE /\ resp' = [resp EXCEPT ![p] = [kind |-> "uploaded"]]
                   /\ Forget(p)
    /\ UNCHANGED <<data_file, meta, cached_sig, nreq, meta_failed, asked>>
    /\ UNCHANGED aside_vars

(***************************************************************************)
(* POST /upload, src/app.py:198-222, on the event loop.                    *)
(***************************************************************************)
\* The status lines 204-211 raise, 200 when they let the request through.
upload_status(key, filename, c) ==
    IF require_admin(key) THEN 401
    ELSE IF ~endswith(lower(filename), DOT_XLSX) THEN 400
    ELSE IF content_len(c) < 1000 THEN 400
    ELSE 200

\* Upload writing and renaming the file (lines 213-215) ahead of the
\* checks of lines 204-211.
Upload_install_first(key, filename, c, sheet_name, now) ==
    /\ pc[Loop] = "idle"
    /\ data_file.exists => now >= data_file.mtime
    /\ nreq < MaxRequests
    /\ nreq' = nreq + 1
    /\ data_file' = [exists |-> TRUE, content |-> c, mtime |-> now]
    /\ IF upload_status(key, filename, c) # 200
       THEN /\ resp' = [resp EXCEPT ![Loop] = Error(upload_status(key, filename, c))]
            /\ pc' = [pc EXCEPT ![Loop] = "done"]
            /\ UNCHANGED <<sheet, file_sig, fresh, meta_failed,
                           known_failed, unchanged>>
       ELSE /\ resp' = [resp EXCEPT ![Loop] = NoResp]
            /\ sheet' = [sheet EXCEPT ![Loop] = sheet_name]
            /\ file_sig' = [file_sig EXCEPT
                              ![Loop] = sig_of(data_file', sheet_name)]
            /\ pc' = [pc EXCEPT ![Loop] = "rb_clear"]
            /\ fresh' = [q \in Procs |-> FALSE]
            /\ meta_failed' = FALSE
            /\ known_failed' = [p \in Threads |-> FALSE]
            /\ unchanged' = [p \in Threads |-> FALSE]
    /\ UNCHANGED <<meta, entries, cached_sig, wb, next_row, dirty, asked>>
    /\ UNCHANGED aside_vars

\* Lines 204-215: the checks, then the content written to upload.tmp.xlsx
\* at second `now` (its st_mtime, which the rename keeps; time does not run
\* backwards) and renamed over DATA_FILE.  rebuild_cache(sheet) follows
\* (line 218) and stats the file just installed (lines 115-120): no other
\* worker writes DATA_FILE, so the install and the stat are one step.
Upload(key, filename, c, sheet_name, now) ==
    /\ pc[Loop] = "idle"
    /\ data_file.exists => now >= data_file.mtime
    /\ nreq < MaxRequests
    /\ nreq' = nreq + 1
    /\ IF upload_status(key, filename, c) # 200
       THEN /\ resp' = [resp EXCEPT ![Loop] = Error(upload_status(key, filename, c))]
            /\ pc' = [pc EXCEPT ![Loop] = "done"]
            /\ UNCHANGED <<data_file, sheet, file_sig, fresh, meta_failed,
                           known_failed, unchanged>>
       ELSE /\ data_file' = [exists |-> TRUE, content |-> c, mtime |-> now]
            /\ resp' = [resp EXCEPT ![Loop] = NoResp]
            /\ sheet' = [sheet EXCEPT ![Loop] = sheet_name]
            /\ file_sig' = [file_sig EXCEPT
                              ![Loop] = sig_of(data_file', sheet_name)]
            /\ pc' = [pc EXCEPT ![Loop] = "rb_clear"]
            /\ fresh' = [q \in Procs |-> FALSE]
            /\ meta_failed' = FALSE
            /\ known_failed' = [p \in Threads |-> FALSE]
            /\ unchanged' = [p \in Threads |-> FALSE]
    /\ UNCHANGED <<meta, entries, cached_sig, wb, next_row, dirty, asked>>
    /\ UNCHANGED aside_vars

\* The response is sent; the worker is free for the next request.
Reply(p) ==
    /\ pc[p] = "done"
    /\ pc' = [pc EXCEPT ![p] = "idle"]
    /\ resp' = [resp EXCEPT ![p] = NoResp]
    /\ asked' = [q \in Threads |-> IF q = p THEN NoAsk ELSE asked[q]]
    /\ UNCHANGED <<data_file, meta, entries, sheet, cached_sig, file_sig, wb,
                   next_row, nreq, dirty, fresh, meta_failed, known_failed,
                   unchanged>>
    /\ UNCHANGED aside_vars

Next ==
    \/ \E p \in Threads, s \in SheetNames : LookupStart(p, s)
    \/ \E p \in Threads : CheckSig(p)
    \/ \E p \in Threads, q \in Queries : Query(p, q)
    \/ \E p \in Threads : RebuildSig(p)
    \/ \E p \in Procs : RebuildClear(p)
    \/ \E p \in Procs : RebuildLoad(p)
    \/ \E p \in Procs : RebuildRows(p)
    \/ \E k \in Keys, f \in Filenames, c \in Contents, s \in SheetNames,
          now \in Seconds : Upload(k, f, c, s, now)
    \/ \E p \in Procs : Reply(p)

Spec == Init /\ [][Next]_vars

(***************************************************************************)
(* find_header taken alone, over a family of worksheets: `lead` copies of  *)
(* a filler row (blank, or holding two of the three fields), then a first  *)
(* candidate row, then a complete header and one data row.  max_row is the *)
(* number of rows, or 0 for a sheet that reports none.                     *)
(***************************************************************************)
\* Rows before the first candidate row.
MaxLead == 41

FILLER_ROWS == { <<>>, <<T_IMPRIME, T_CODE_EDI>> }

CANDIDATE_ROWS ==
    { <<T_NOTES, T_IMPRIME, T_CODE_EDI, T_LIBELLE>>,
      <<T_CODE_EDI_US, T_LIBELLE_PLAIN, T_IMPRIME_UP>>,
      <<T_IMPRIME_UP, T_IMPRIME, T_CODE_EDI_US, T_CODE_EDI, None, T_LIBELLE>>,
      <<T_LIBELLE, T_CODEEDI, T_CODE_EDI_US, T_IMPRIME, T_LIBELLE_PLAIN,
        T_CODE_EDI_US>>,
      <<T_NOTES, T_LIBELLE>> }

PLAIN_HEADER == <<T_IMPRIME, T_CODE_EDI, T_LIBELLE>>

header_sheet(lead, filler, candidate, counted) ==
    LET rows == [i \in 1..lead |-> filler]
                \o << candidate, PLAIN_HEADER, <<T_12, T_0A, T_LABEL_ONE>> >>
    IN  [max_row |-> IF counted THEN Len(rows) ELSE 0, rows |-> rows]

HeaderSheets ==
    { header_sheet(lead, filler, candidate, counted) :
        lead \in 0..MaxLead, filler \in FILLER_ROWS,
        candidate \in CANDIDATE_ROWS, counted \in BOOLEAN }

InitHeader ==
    /\ data_file = NoFile
    /\ meta = NoSig
    /\ entries = <<>>
    /\ Quiet
    /\ fh_ws \in HeaderSheets
    /\ fh_result = NotCalled
    /\ nm_x = <<>>
    /\ nm_once = NotCalled
    /\ nm_twice = NotCalled

\* The call find_header(ws) of line 132.
FindHeader ==
    /\ fh_result = NotCalled
    /\ fh_result' = find_header(fh_ws)
    /\ UNCHANGED <<fh_ws, code_vars, hist_vars, nm_vars>>

NextHeader == FindHeader

SpecHeader == InitHeader /\ [][NextHeader]_vars

(***************************************************************************)
(* norm taken alone, over every text of at most MaxLen characters of an    *)
(* alphabet with a letter, an upper-case letter, an accented upper-case    *)
(* letter, a combining mark, a space and a non-breaking space.             *)
(***************************************************************************)
MaxLen == 3

NormAlphabet == {"a", "B", "E_acute", "comb_acute", " ", "nbsp"}

NormTexts == UNION {[1..n -> NormAlphabet] : n \in 0..MaxLen}

InitNorm ==
    /\ data_file = NoFile
    /\ meta = NoSig
    /\ entries = <<>>
    /\ Quiet
    /\ fh_ws = NoSheet
    /\ fh_result = NotCalled
    /\ nm_x \in NormTexts
    /\ nm_once = NotCalled
    /\ nm_twice = NotCalled

\* norm(x)
NormOnce ==
    /\ nm_once = NotCalled
    /\ nm_once' = norm(nm_x)
    /\ UNCHANGED <<nm_x, nm_twice, code_vars, hist_vars, fh_vars>>

\* norm(norm(x))
NormTwice ==
    /\ nm_once # NotCalled
    /\ nm_twice = NotCalled
    /\ nm_twice' = norm(nm_once)
    /\ UNCHANGED <<nm_x, nm_once, code_vars, hist_vars, fh_vars>>

NextNorm == NormOnce \/ NormTwice

SpecNorm == InitNorm /\ [][NextNorm]_vars

(***************************************************************************)
(* Properties.                                                             *)
(***************************************************************************)
\* Workers inside rebuild_cache, past line 120.
Rebuilding == {p \in Procs : pc[p] \in {"rb_clear", "rb_load", "rb_rows"}}

\* Workers between the commit of line 125 and their last commit.
Building == {p \in Procs : pc[p] \in {"rb_load", "rb_rows"}}

\* Every entry one rebuild extracts from sheet sn of content c.
Extraction(c, sn) ==
    stage_rows(worksheet(c, sn).rows, HEADERS[c, sn][1] + 1, HEADERS[c, sn])

\* The stored signature and the entries are of one generation: the entries
\* are all that some workbook of that signature's size and sheet yields.
SameGeneration ==
    \E c \in Contents, sn \in SheetNames :
        /\ HEADERS[c, sn] # RuntimeError
        /\ meta[3] = content_len(c)
        /\ meta[4] = sn
        /\ entries = Extraction(c, sn)

\* C1: in every committed state of the store, the stored signature and the
\* entries belong to the same generation: a stored signature is never seen
\* with none or only part of the entries of its workbook.
C1_AtomicRebuildVisibility == meta # NoSig => SameGeneration

\* C2: a rebuild that fails at lines 127-132 has committed nothing: the
\* call that raises there has not changed the stored entries or signature.
C2_FailedRebuildCommitsNothing ==
    [][\A p \in Procs :
          (pc[p] = "rb_load" /\ pc'[p] = "done") => ~dirty[p]]_vars

\* C3: once the rebuild for the stored signature has failed, a lookup that
\* finds the unchanged source at that signature answers with an error,
\* never with a result.
C3_FailureIsRepeatable ==
    [][\A p \in Threads :
          (known_failed[p] /\ pc'[p] = "done") => resp'[p].kind = "error"]_vars

\* C4: no second rebuild is started for a signature: two calls of
\* rebuild_cache never run for the same signature at once.
C4_OneRebuildPerSignature ==
    \A p, q \in Rebuilding : p # q => file_sig[p] # file_sig[q]

\* C5: at most one rebuild is in progress between its clearing of the
\* entries and its last commit.
C5_RebuildMutualExclusion == Cardinality(Building) <= 1

\* Row r of sheet sn of content c lies after the header, holds the two key
\* columns with the normalized texts of ka and kb, and a non-empty label.
KeyedRow(c, sn, r, ka, kb) ==
    LET hdr == HEADERS[c, sn]
        row == worksheet(c, sn).rows[r]
    IN  /\ r > hdr[1]
        /\ hdr[2] <= Len(row) /\ hdr[3] <= Len(row) /\ hdr[4] <= Len(row)
        /\ norm(row[hdr[2]]) = norm(ka)
        /\ norm(row[hdr[3]]) = norm(kb)
        /\ row[hdr[4]] # None
        /\ strip(row[hdr[4]]) # <<>>

\* found=true with the trimmed label of the first row of `fits`, found=false
\* with an empty label when there is none.
FirstLabel(c, sn, fits) ==
    IF fits = {} THEN [kind |-> "single", found |-> FALSE, libelle |-> <<>>]
    ELSE LET r == CHOOSE x \in fits : \A y \in fits : x <= y
         IN  [kind |-> "single", found |-> TRUE,
              libelle |-> strip(worksheet(c, sn).rows[r][HEADERS[c, sn][4]])]

\* A lookup in single mode that has answered from the index its own
\* rebuild has just built, no other worker having written since.
FreshSingle(p) ==
    pc[p] = "done" /\ resp[p].kind = "single" /\ asked[p].fresh

\* C6 as stated: single mode against a freshly built index answers with the
\* label of the first data row after the header whose normalized key
\* columns equal norm(keyA) and norm(keyB) and whose label is non-empty,
\* found=false with an empty label when there is no such row.
C6_SingleFirstRowAsStated ==
    \A p \in Threads :
        FreshSingle(p) =>
            LET a == asked[p]
                fits == {r \in 1..Len(worksheet(a.wb, a.sheet).rows) :
                            KeyedRow(a.wb, a.sheet, r, a.imprime, a.codeedi)}
            IN  resp[p] = FirstLabel(a.wb, a.sheet, fits)

\* C6 amended: as above, over the rows whose two normalized keys are not
\* empty: a key that normalizes to the empty text finds nothing.
C6_SingleFirstRow ==
    \A p \in Threads :
        FreshSingle(p) =>
            LET a == asked[p]
                fits == {r \in 1..Len(worksheet(a.wb, a.sheet).rows) :
                            /\ norm(a.imprime) # <<>>
                            /\ norm(a.codeedi) # <<>>
                            /\ KeyedRow(a.wb, a.sheet, r, a.imprime, a.codeedi)}
            IN  resp[p] = FirstLabel(a.wb, a.sheet, fits)

\* C6 witness: a fresh single-mode lookup of a key that three rows of
\* W1/2026 hold has answered with the label of the first of them.
C6_Witness ==
    \E p \in Threads :
        /\ FreshSingle(p)
        /\ asked[p].wb = "W1" /\ asked[p].sheet = "2026"
        /\ resp[p] = [kind |-> "single", found |-> TRUE, libelle |-> T_LABEL_ONE]

\* The positions of the stored entries matching the normalized key.
Matching(ka, kb) ==
    {i \in 1..Len(entries) :
        entries[i].imprime = norm(ka) /\ entries[i].codeedi = norm(kb)}

\* Those whose normalized label no earlier matching entry has.
FirstSeen(ka, kb) ==
    {i \in Matching(ka, kb) :
        \A j \in Matching(ka, kb) :
            j < i => norm(entries[j].libelle) # norm(entries[i].libelle)}

\* The k-th position of S in increasing order.
Kth(S, k) == CHOOSE i \in S : Cardinality({j \in S : j < i}) = k - 1

\* C7: the answer of an all-mode lookup lists, in storage order, the raw
\* label of the first matching entry of each distinct normalized label,
\* and found is true exactly when that list is not empty.
C7_AllModeDedup ==
    [][\A p \in Threads :
          (pc[p] = "query" /\ pc'[p] = "done" /\ resp'[p].kind = "all") =>
              LET a == asked'[p]
                  firsts == FirstSeen(a.imprime, a.codeedi)
                  out == resp'[p].libelles
              IN  /\ Len(out) = Cardinality(firsts)
                  /\ \A k \in 1..Len(out) : out[k] = entries[Kth(firsts, k)].libelle
                  /\ resp'[p].found = (out # <<>>)]_vars

\* C7 witness: an all-mode lookup has answered two labels from three
\* matching entries, two of which have the same normalized label.
C7_Witness ==
    \E p \in Threads :
        /\ pc[p] = "done"
        /\ asked[p].fresh /\ asked[p].wb = "W1" /\ asked[p].sheet = "2026"
        /\ resp[p] = [kind |-> "all", found |-> TRUE,
                      libelles |-> <<T_LABEL_ONE, <<"M">> >>]

\* C8: a lookup arriving while no source file is present ends at once with
\* an error response, and leaves the entries and the stored signature as
\* they were.
C8_NoSourceIsAnError ==
    [][\A p \in Threads :
          (pc[p] = "idle" /\ pc'[p] # "idle" /\ ~data_file.exists) =>
              /\ pc'[p] = "done"
              /\ resp'[p].kind = "error"
              /\ entries' = entries
              /\ meta' = meta]_vars

\* C8 witness: a lookup has been refused for want of a source file while
\* entries of an earlier build are stored.
C8_Witness ==
    \E p \in Threads :
        /\ ~data_file.exists
        /\ pc[p] = "done"
        /\ resp[p] = Error(400)
        /\ entries # <<>>
        /\ meta # NoSig

\* A cell holds an alias of a field.
IsAlias(cell, aliases) ==
    \E k \in 1..Len(aliases) : norm(cell) = norm(aliases[k])

HoldsAlias(row, aliases) == \E col \in 1..Len(row) : IsAlias(row[col], aliases)

\* The rows of the scan window holding an alias of each of the three fields.
Qualifying(ws) ==
    {r \in 1..Min(40, ws.max_row) :
        /\ r <= Len(ws.rows)
        /\ HoldsAlias(ws.rows[r], ALIASES_IMPRIME)
        /\ HoldsAlias(ws.rows[r], ALIASES_CODEEDI)
        /\ HoldsAlias(ws.rows[r], ALIASES_LIBELLE)}

\* C9: find_header returns the lowest row of rows 1..min(40, row count)
\* holding an alias of each of the three fields, with a column of that row
\* for each field, and raises when no row of the window qualifies.
C9_FindHeaderLowestRow ==
    fh_result # NotCalled =>
        IF Qualifying(fh_ws) = {} THEN fh_result = RuntimeError
        ELSE /\ fh_result # RuntimeError
             /\ fh_result[1] \in Qualifying(fh_ws)
             /\ \A r \in Qualifying(fh_ws) : fh_result[1] <= r
             /\ LET row == fh_ws.rows[fh_result[1]]
                IN  /\ fh_result[2] \in 1..Len(row)
                    /\ fh_result[3] \in 1..Len(row)
                    /\ fh_result[4] \in 1..Len(row)
                    /\ IsAlias(row[fh_result[2]], ALIASES_IMPRIME)
                    /\ IsAlias(row[fh_result[3]], ALIASES_CODEEDI)
                    /\ IsAlias(row[fh_result[4]], ALIASES_LIBELLE)

\* C9 witness: find_header has raised on a sheet of more than 40 rows whose
\* first complete header row is row 41.
C9_Witness ==
    /\ fh_result = RuntimeError
    /\ fh_ws.max_row > 40
    /\ HoldsAlias(fh_ws.rows[41], ALIASES_IMPRIME)
    /\ HoldsAlias(fh_ws.rows[41], ALIASES_CODEEDI)
    /\ HoldsAlias(fh_ws.rows[41], ALIASES_LIBELLE)

\* C10: every stored entry has a non-empty imprime, a non-empty codeedi and
\* a non-empty libelle.
C10_NoEmptyField ==
    \A i \in 1..Len(entries) :
        /\ entries[i].imprime # <<>>
        /\ entries[i].codeedi # <<>>
        /\ entries[i].libelle # <<>>

\* C10 witness: a rebuild has gone through every row of W1/2026, which
\* holds rows without imprimé, without label and with a blank label, and
\* its three entries are stored.
C10_Witness ==
    \E p \in Threads :
        /\ pc[p] = "query"
        /\ fresh[p] /\ wb[p] = "W1" /\ sheet[p] = "2026"
        /\ Len(entries) = 3

\* C11: norm is idempotent: norm(norm(x)) = norm(x) for every text x.
C11_NormIdempotent == nm_twice # NotCalled => nm_twice = nm_once

\* The rows of sheet sn of content c below the header that hold both key
\* columns with a non-empty normalized text and a label not empty once
\* trimmed.
ValidRows(c, sn) ==
    LET hdr == HEADERS[c, sn]
        rows == worksheet(c, sn).rows
    IN  {r \in 1..Len(rows) :
            /\ r > hdr[1]
            /\ hdr[2] <= Len(rows[r]) /\ hdr[3] <= Len(rows[r])
            /\ norm(rows[r][hdr[2]]) # <<>>
            /\ norm(rows[r][hdr[3]]) # <<>>
            /\ hdr[4] <= Len(rows[r])
            /\ rows[r][hdr[4]] # None
            /\ strip(rows[r][hdr[4]]) # <<>>}

\* The entry row r of the sheet gives.
EntryOf(c, sn, r) ==
    LET hdr == HEADERS[c, sn]
        row == worksheet(c, sn).rows[r]
    IN  [imprime |-> norm(row[hdr[2]]),
         codeedi |-> norm(row[hdr[3]]),
         libelle |-> strip(row[hdr[4]])]

\* The entries are those of the valid rows of the sheet, one each, in row
\* order.
InSourceOrder(c, sn) ==
    /\ Len(entries) = Cardinality(ValidRows(c, sn))
    /\ \A k \in 1..Len(entries) :
          entries[k] = EntryOf(c, sn, Kth(ValidRows(c, sn), k))

\* C12: a rebuild that ran alone leaves the entries its content and sheet
\* name determine: one per valid row, in source row order, whatever the
\* batches they were committed in.
C12_RebuildInSourceOrder ==
    \A p \in Threads :
        (pc[p] = "query" /\ fresh[p]) => InSourceOrder(wb[p], sheet[p])

\* C12 witness: a rebuild of W1/2026 has returned, its three entries
\* stored in the order of rows 4, 6 and 9.
C12_Witness ==
    \E p \in Threads :
        /\ pc[p] = "query" /\ fresh[p]
        /\ wb[p] = "W1" /\ sheet[p] = "2026"
        /\ Len(entries) = 3
        /\ entries[1].libelle = T_LABEL_ONE
        /\ entries[2].libelle = T_LABEL_ONE_LOW
        /\ entries[3].libelle = <<"M">>

\* C13: a lookup that finds the stored signature it read equal to the
\* current signature calls no rebuild: it goes on to its query and from
\* there to its answer, and neither step changes the entries or the stored
\* signature.
C13_FreshIndexUntouched ==
    [][\A p \in Threads :
          /\ (/\ pc[p] = "check_sig"
              /\ pc'[p] # "check_sig"
              /\ cached_sig[p] = get_file_sig(sheet[p]))
                 => (pc'[p] = "query" /\ entries' = entries /\ meta' = meta)
          /\ (pc[p] = "query" /\ pc'[p] # "query")
                 => (pc'[p] = "done" /\ entries' = entries /\ meta' = meta)]_vars

\* C13 witness: a lookup is at its query without having loaded a workbook,
\* over a stored index.
C13_Witness ==
    \E p \in Threads :
        /\ pc[p] = "query"
        /\ wb[p] = "-"
        /\ meta = get_file_sig(sheet[p])
        /\ entries # <<>>

\* The store holds the current signature for sheet sn and the entries of
\* that sheet of the current source.
Repaired(sn) ==
    /\ meta = get_file_sig(sn)
    /\ InSourceOrder(data_file.content, sn)

\* C14: a lookup that finds the stored signature it read absent or
\* different from the current one calls rebuild_cache, and when that call
\* returns to it, no other worker having written the store or replaced the
\* source meanwhile, the stored signature is the current one and the
\* entries are those of the requested sheet of the current source.
C14_StaleIndexRepaired ==
    /\ [][\A p \in Threads :
             (/\ pc[p] = "check_sig"
              /\ pc'[p] # "check_sig"
              /\ cached_sig[p] # get_file_sig(sheet[p]))
                 => pc'[p] = "rebuild"]_vars
    /\ [](\A p \in Threads :
             (pc[p] = "query" /\ fresh[p] /\ unchanged[p])
                 => Repaired(sheet[p]))

\* C14 witness: with the index built for "2026", a lookup for "2025" that
\* ran alone is back from rebuild_cache over the one entry of that sheet.
C14_Witness ==
    \E p \in Threads :
        /\ pc[p] = "query" /\ fresh[p] /\ unchanged[p]
        /\ \A q \in Procs \ {p} : pc[q] = "idle"
        /\ data_file = W1_AT_0 /\ sheet[p] = "2025"
        /\ meta = get_file_sig("2025")
        /\ Len(entries) = 1
        /\ entries[1].libelle = T_OLD_LABEL

\* upload_excel has returned from rebuild_cache and answered, and no other
\* worker has written the store or replaced the file since.
UploadDone ==
    pc[Loop] = "done" /\ resp[Loop].kind = "uploaded" /\ fresh[Loop]

\* C15: the rebuild an upload calls empties the entries and stores its
\* signature whatever the store held; once it has returned, the store
\* holds the current signature of the uploaded sheet with the entries of
\* that sheet, and a lookup for that sheet that reads this signature goes
\* to its query without a rebuild.
C15_UploadRebuildsUnconditionally ==
    /\ [][(pc[Loop] = "rb_clear" /\ pc'[Loop] # "rb_clear")
             => (entries' = <<>> /\ meta' = file_sig[Loop])]_vars
    /\ [](UploadDone => Repaired(meta[4]))
    /\ [][\A p \in Threads :
             (/\ pc[p] = "check_sig" /\ pc'[p] # "check_sig"
              /\ UploadDone
              /\ cached_sig[p] = meta
              /\ sheet[p] = meta[4]) => pc'[p] = "query"]_vars

\* C15 witness: an upload of W1 has been indexed and answered, and a
\* lookup for the uploaded sheet is at its query without having rebuilt.
C15_Witness ==
    /\ UploadDone
    /\ data_file.content = "W1"
    /\ Len(entries) = 3
    /\ \E p \in Threads :
          pc[p] = "query" /\ wb[p] = "-" /\ sheet[p] = meta[4]

\* The columns of a row whose normalized cell text is that of alias a.
ColumnsOf(row, a) == {col \in 1..Len(row) : norm(row[col]) = norm(a)}

\* The first column of the first alias, in the listed order, that a cell
\* of the row holds.
FieldColumn(row, aliases) ==
    LET present == {k \in 1..Len(aliases) : ColumnsOf(row, aliases[k]) # {}}
        first == CHOOSE k \in present : \A j \in present : k <= j
        cols == ColumnsOf(row, aliases[first])
    IN  CHOOSE c \in cols : \A d \in cols : c <= d

\* C16: in the header row it returns, find_header resolves each field to
\* the first column holding the first alias, in the listed order, that
\* the row holds at all.
C16_AliasOrderThenFirstColumn ==
    (fh_result # NotCalled /\ fh_result # RuntimeError) =>
        LET row == fh_ws.rows[fh_result[1]]
        IN  /\ fh_result[2] = FieldColumn(row, ALIASES_IMPRIME)
            /\ fh_result[3] = FieldColumn(row, ALIASES_CODEEDI)
            /\ fh_result[4] = FieldColumn(row, ALIASES_LIBELLE)

\* C16 witness: in a row holding 'IMPRIME', 'Imprimé', 'Code_EDI',
\* 'Code EDI', an empty cell and 'Libellé', find_header has taken columns
\* 1, 4 and 6.
C16_Witness ==
    /\ fh_result # NotCalled
    /\ fh_result # RuntimeError
    /\ fh_ws.rows[fh_result[1]] =
          <<T_IMPRIME_UP, T_IMPRIME, T_CODE_EDI_US, T_CODE_EDI, None, T_LIBELLE>>
    /\ fh_result[2] = 1
    /\ fh_result[3] = 4
    /\ fh_result[4] = 6

\* The entries are those of the valid rows of the sheet and of no other
\* row, as many as there are valid rows.
OnlyValidRows(c, sn) ==
    /\ \A r \in ValidRows(c, sn) :
          \E k \in 1..Len(entries) : entries[k] = EntryOf(c, sn, r)
    /\ \A k \in 1..Len(entries) :
          \E r \in ValidRows(c, sn) : entries[k] = EntryOf(c, sn, r)
    /\ Len(entries) = Cardinality(ValidRows(c, sn))

\* C17: the row loop of rebuild_cache never raises, whatever rows it
\* meets, and a rebuild that ran alone has indexed every valid row below
\* the header, before or after a malformed one, and no other row.
C17_MalformedRowsSkipped ==
    /\ [][\A p \in Procs :
             (pc[p] = "rb_rows" /\ pc'[p] # "rb_rows") =>
                 \/ pc'[p] = "query"
                 \/ pc'[p] = "done" /\ resp'[p].kind = "uploaded"]_vars
    /\ [](\A p \in Threads :
             (pc[p] = "query" /\ fresh[p]) => OnlyValidRows(wb[p], sheet[p]))
    /\ [](UploadDone => OnlyValidRows(data_file.content, meta[4]))

\* C17 witness: the upload of W1, whose sheet "2026" holds four malformed
\* rows between and after its three valid ones, has been indexed and
\* answered with three entries stored.
C17_Witness ==
    /\ UploadDone
    /\ data_file.content = "W1"
    /\ meta[4] = "2026"
    /\ Len(entries) = 3
    /\ \A q \in Threads : pc[q] = "idle"

\* The labels a sheet of that name holds in any installable workbook.
SheetLabels ==
    [sn \in SheetNames |->
        UNION { {EntryOf(c, sn, r).libelle : r \in ValidRows(c, sn)} :
                c \in {d \in Contents : HEADERS[d, sn] # RuntimeError} }]

\* The labels of a lookup response.
AnsweredLabels(r) ==
    CASE r.kind = "single" -> IF r.found THEN {r.libelle} ELSE {}
      [] r.kind = "all" -> {r.libelles[k] : k \in 1..Len(r.libelles)}
      [] OTHER -> {}

\* C18: a lookup that got past its freshness check answers with labels of
\* the sheet it asked for only, whatever the other requests did between
\* its check and its query.
C18_SheetIsolation ==
    \A p \in Threads :
        (pc[p] = "done" /\ resp[p].kind \in {"single", "all"}) =>
            AnsweredLabels(resp[p]) \subseteq SheetLabels[asked[p].sheet]

\* No handler is running, none has answered with an error, and the stored
\* signature is the one a completed rebuild of the current file left.
Quiescent ==
    /\ \A p \in Procs : pc[p] \in {"idle", "done"}
    /\ \A p \in Procs : resp[p].kind # "error"
    /\ ~meta_failed
    /\ meta # NoSig
    /\ meta = get_file_sig(meta[4])

\* C19: once every overlapping rebuild has run to completion without
\* error, the entries are those of the file and sheet the stored signature
\* names: one per valid row, in row order, nothing doubled, nothing left
\* over.
C19_QuiescentConsistency ==
    Quiescent => InSourceOrder(data_file.content, meta[4])

\* The file, the stored signature and the entries.
storage == <<data_file, meta, entries>>

\* C20: an upload answered from its checks (401 for the key, 400 for the
\* file name or the length) leaves the file, the stored signature and the
\* entries as they were and starts no rebuild: the handler goes from idle
\* to its answer in one step and from there back to idle only.
C20_RejectedUploadChangesNothing ==
    /\ [][(pc[Loop] = "idle" /\ pc'[Loop] = "done") =>
             /\ resp'[Loop] \in {Error(401), Error(400)}
             /\ storage' = storage
             /\ file_sig' = file_sig
             /\ \A p \in Threads : pc'[p] = pc[p]]_vars
    /\ [][(pc[Loop] = "done" /\ pc'[Loop] # "done") =>
             /\ pc'[Loop] = "idle"
             /\ storage' = storage]_vars

\* C20 witness: an upload has been answered 401 over a store that holds a
\* file and an index.
C20_Witness ==
    /\ pc[Loop] = "done"
    /\ resp[Loop] = Error(401)
    /\ data_file.exists
    /\ meta # NoSig
    /\ entries # <<>>

====
